---- MODULE Spec2Model ----
(***************************************************************************)
(* Model of the Git working-copy manager of automation-client,             *)
(* src/src/project/git/GitCommandGitProject.ts, and of the routes of its   *)
(* dashboard and their guards,                                             *)
(* src/src/internal/transport/express/ExpressServer.ts.                    *)
(*                                                                         *)
(* Text (URLs, refs, commands, log lines) is a sequence of atoms.  A       *)
(* one-character atom is that character; a longer atom is a literal chunk  *)
(* of text that contains no 40-digit hexadecimal run.  A shell command     *)
(* either completes successfully or fails, and a failing command rejects   *)
(* the promise runCommand returned (the .catch handlers of cloneInto and   *)
(* push are written against that).                                         *)
(***************************************************************************)
EXTENDS Integers, Sequences, FiniteSets, TLC

VARIABLES
    id,           \* the RemoteRepoRef given to cloned(): branch, sha, path
    opts,         \* the CloneOptions given to cloned()
    urlForm,      \* which credential-embedding form id.cloneUrl returns
    caller,       \* the kind of caller that uses the handle
    pc,           \* position of the clone operation
    secondTry,    \* clone()'s secondTry parameter
    dirInfo,      \* type of the CloneDirectoryInfo clone() currently holds
    attempt,      \* promise-retry's attempt number (count) in cloneInto
    cmds,         \* commands issued in the current attempt or reuse, in order
    outcomes,     \* outcome of each completed command of cmds, in order
    cloneCmds,    \* `git clone` commands the operation has issued
    descs,        \* what became of each descriptor directoryFor returned
    populated,    \* the directory of the descriptor in hand holds a clone
    caught,       \* the error clone()'s catch block holds
    firstError,   \* the error the first try of the operation caught, if any
    error,        \* error with which the operation was rejected
    logged,       \* lines the logger received in the last step
    handle,       \* the GitCommandGitProject, once created
    releaseCalls, \* invocations of the descriptor's release callback
    callerReleases, \* times the caller released the handle
    calls,        \* verb invocations in progress on the handle
    settled,      \* how the verb invocation that settled in the last step settled
    ev,           \* what the last step did
    server        \* the ExpressServer, if one is constructed

vars == <<id, opts, urlForm, caller, pc, secondTry, dirInfo, attempt, cmds,
          outcomes, cloneCmds, descs, populated, caught, firstError, error, logged, handle,
          releaseCalls,
          callerReleases, calls, settled, ev, server>>

opVars == <<secondTry, dirInfo, attempt, cmds, outcomes, cloneCmds, descs, populated, caught,
            firstError, error>>

inVars == <<id, opts, urlForm, caller, server>>

-----------------------------------------------------------------------------
(* Bounds and program constants *)

\* promise-retry option `retries`
Retries == 4

\* length of the hexadecimal run isValidSHA1 looks for
ShaLen == 40

\* longest padding put around a hexadecimal run in the refs tried
MaxPad == 1

\* most verb invocations in progress at once for a caller that does not await
MaxCalls == 2

\* most times the caller releases the handle it was given
MaxReleases == 2

-----------------------------------------------------------------------------
(* Text *)

Min(S) == CHOOSE x \in S : \A y \in S : x <= y

Max(S) == CHOOSE x \in S : \A y \in S : x >= y

Rep(n, a) == [i \in 1..n |-> a]

HexChars == {"0", "1", "2", "3", "4", "5", "6", "7", "8", "9",
             "a", "b", "c", "d", "e", "f", "A", "B", "C", "D", "E", "F"}

\* the secret of the credentials
Token == "s3cr3t-token"

Dir == "/tmp/repo-dir"


Empty == <<>>

\* JavaScript's a || b on strings: the first when it is neither undefined nor ""
Or(a, b) == IF a # Empty THEN a ELSE b

-----------------------------------------------------------------------------
(* Collaborators: the repository identity and the directory manager *)

UrlForms == {"oauth", "bare", "userpass"}

\* id.cloneUrl(credentials): the URL forms that embed the credentials' token
cloneUrl(form, rid) ==
    CASE form = "oauth"    -> <<"https:", "//", Token, ":x-oauth-basic", "@", "github.com/acme/", rid.repo, ".git">>
      [] form = "bare"     -> <<"https:", "//", Token, "@", "github.com/acme/", rid.repo, ".git">>
      [] form = "userpass" -> <<"https:", "//", "bot", ":", Token, "@", "git.example.com/acme/", rid.repo, ".git">>

DescriptorTypes == {"empty-directory", "existing-directory"}

DescriptorProvenance == <<"directory-manager">>

-----------------------------------------------------------------------------
(* cloneInto: commands and log lines *)

\* url.replace(/\/\/.*:x-oauth-basic/, "//TOKEN:x-oauth-basic"): the first match,
\* from the leftmost "//" that some ":x-oauth-basic" follows to the last of them
cleanUrl(url) ==
    LET marks(i) == {j \in (i + 1)..Len(url) : url[j] = ":x-oauth-basic"}
        starts == {i \in 1..Len(url) : url[i] = "//" /\ marks(i) # {}}
    IN  IF starts = {} THEN url
        ELSE LET i == Min(starts)
                 j == Max(marks(i))
             IN  SubSeq(url, 1, i - 1) \o <<"//", "TOKEN", ":x-oauth-basic">>
                     \o SubSeq(url, j + 1, Len(url))

cloneCommand ==
    IF ~opts.alwaysDeep
    THEN <<"git clone --depth ", ToString(IF opts.depth # 0 THEN opts.depth ELSE 1), " ">>
             \o cloneUrl(urlForm, id) \o <<" ", Dir, " ">>
             \o (IF opts.cloneBranch # Empty THEN <<"--branch ">> \o opts.cloneBranch ELSE Empty)
    ELSE <<"git clone ">> \o cloneUrl(urlForm, id) \o <<" ", Dir>>

checkoutRef == Or(id.branch, id.sha)

checkoutCommand(ref) == <<"git checkout ">> \o ref \o <<" --">>

unshallowCommand == <<"git fetch --unshallow">>

CloningLine == <<"Cloning repo '">> \o cleanUrl(cloneUrl(urlForm, id)) \o <<"' in '", Dir, "'">>

NotInHistoryLine == <<"Ref ">> \o checkoutRef \o <<" not in cloned history. Attempting full clone">>

AttemptFailedLine(count) ==
    <<"Clone of ", "acme", "/", id.repo, " attempt ", ToString(count), " failed">>

SucceededLine == <<"Clone succeeded with URL '">> \o cleanUrl(cloneUrl(urlForm, id)) \o <<"'">>

CreatedLine == <<"Created GitProject">>

-----------------------------------------------------------------------------
(* The reuse path of clone(): resetOrigin, checkout, clean *)

ReuseSteps == <<"resetOrigin", "pwd", "fetch", "checkout", "resetHard", "pwdClean",
                "clean", "checkoutDot">>

ReuseCommand(step) ==
    CASE step = "resetOrigin" -> <<"git remote set origin ">> \o cloneUrl(urlForm, id)
      [] step = "pwd"         -> <<"pwd">>
      [] step = "fetch"       -> <<"git fetch origin ">> \o checkoutRef
      [] step = "checkout"    -> checkoutCommand(checkoutRef)
      [] step = "resetHard"   -> <<"git reset --hard origin/">> \o checkoutRef
      [] step = "pwdClean"    -> <<"pwd">>
      [] step = "clean"       -> <<"git clean -dfx">>
      [] step = "checkoutDot" -> <<"git checkout -- .">>

StepIndex(step) == CHOOSE i \in 1..Len(ReuseSteps) : ReuseSteps[i] = step

-----------------------------------------------------------------------------
(* The handle *)

NoHandle == [exists |-> FALSE]

\* no ExpressServer is constructed
NoServer == [pc |-> "none"]

\* NodeFsLocalProject's constructor keeps the release function it is given
LocalProjectRelease(release) == release

\* GitCommandGitProject's constructor, as fromBaseDir calls it; release is
\* "descriptor" (the descriptor's callback), "parent" (() => p.release()) or
\* "none" (() => Promise.resolve())
fromBaseDir(rid, baseDir, release, provenance) ==
    [exists |-> TRUE, id |-> rid, baseDir |-> baseDir, branch |-> Or(rid.branch, rid.sha),
     remote |-> Empty, newRepo |-> FALSE, release |-> LocalProjectRelease(release),
     provenance |-> provenance]

\* the error a failing command rejects with; `at` tells one failure from another
CommandError(cmd, at) == [cmd |-> cmd, at |-> at]

NoError == [cmd |-> Empty, at |-> <<>>]


-----------------------------------------------------------------------------
(* Inputs *)

\* no result of a command: verbs that do not read the result settle with this
NoResult == [settles |-> "none", success |-> FALSE, stdout |-> Empty]

\* no verb invocation settled in the last step
NoSettled == [verb |-> "none", arg |-> Empty, outcome |-> "none", value |-> Empty,
              from |-> NoResult]

\* the CommandResult of a command that succeeded
CommandResult == <<"CommandResult">>

\* the message of the error of a command that failed
FailureText == <<"command failed">>

Sha == Rep(ShaLen, "a")

Ids == [kind : {"remote"}, repo : {"widgets"}, branch : {Empty, <<"main">>}, sha : {<<"master">>},
        path : {Empty, <<"sub">>, <<"/", "sub">>}]

DefaultCloneOptions == [alwaysDeep |-> FALSE, depth |-> 0, cloneBranch |-> Empty]

CloneOptions == [alwaysDeep : BOOLEAN, depth : {0, 1, 2}, cloneBranch : {Empty, <<"main">>}]

-----------------------------------------------------------------------------
(* The clone operation: cloned(), clone(), cloneInto() *)

\* callers: "awaiting" awaits each verb before invoking the next, "overlapping"
\* does not, "checking" awaits and checks out refs of every shape
Awaits(c) == c # "overlapping"

\* cloned(credentials, i, o) has been called by caller c: directoryFor is pending
Start(i, o, form, c) ==
    /\ id = i
    /\ opts = o
    /\ urlForm = form
    /\ caller = c
    /\ pc = "resolve"
    /\ secondTry = FALSE
    /\ dirInfo = "none"
    /\ attempt = 0
    /\ cmds = <<>>
    /\ outcomes = <<>>
    /\ cloneCmds = 0
    /\ descs = <<>>
    /\ populated = FALSE
    /\ caught = NoError
    /\ firstError = NoError
    /\ error = NoError
    /\ logged = {}
    /\ handle = NoHandle
    /\ releaseCalls = 0
    /\ callerReleases = 0
    /\ calls = <<>>
    /\ settled = NoSettled
    /\ ev = "start"
    /\ server = NoServer

Init == \E i \in Ids, o \in CloneOptions, form \in UrlForms : Start(i, o, form, "awaiting")

\* the error of the command in flight, should it fail
ThisError ==
    CommandError(cmds[Len(cmds)], <<IF secondTry THEN 2 ELSE 1, attempt, Len(cmds)>>)

SetLast(seq, v) == [seq EXCEPT ![Len(seq)] = v]

\* as CanRetry, with one retry more than `retries`
CanRetryOnceMore(count) == count <= Retries + 1

\* promise-retry: operation.retry(err) schedules another attempt while one of
\* the `retries` timeouts is left
CanRetry(count) == count <= Retries

\* directoryManager.directoryFor resolves, and clone() switches on the type
directoryFor(type) ==
    /\ pc = "resolve"
    /\ dirInfo' = type
    /\ descs' = Append(descs, "held")
    /\ populated' = (type = "existing-directory")
    /\ IF type = "empty-directory"
       THEN /\ attempt' = 1
            /\ cmds' = <<cloneCommand>>
            /\ cloneCmds' = cloneCmds + 1
            /\ logged' = {CloningLine}
            /\ pc' = "clone"
       ELSE /\ attempt' = attempt
            /\ cmds' = <<ReuseCommand("resetOrigin")>>
            /\ cloneCmds' = cloneCmds
            /\ logged' = {}
            /\ pc' = "resetOrigin"
    /\ outcomes' = <<>>
    /\ ev' = "directoryFor"
    /\ UNCHANGED <<inVars, secondTry, caught, firstError, error, handle,
                   releaseCalls, callerReleases, calls, settled>>

\* as attemptFailed, the descriptor being invalidated when the retries are used up
attemptFailedInvalidates(lines) ==
    /\ logged' = lines \cup {AttemptFailedLine(attempt)}
    /\ IF CanRetry(attempt)
       THEN /\ attempt' = attempt + 1
            /\ cmds' = <<cloneCommand>>
            /\ outcomes' = <<>>
            /\ cloneCmds' = cloneCmds + 1
            /\ pc' = "clone"
            /\ error' = error
            /\ descs' = descs
       ELSE /\ attempt' = attempt
            /\ cmds' = cmds
            /\ outcomes' = Append(outcomes, FALSE)
            /\ cloneCmds' = cloneCmds
            /\ pc' = "failed"
            /\ error' = ThisError
            /\ descs' = SetLast(descs, "invalidated")
    /\ ev' = "cmdFail"
    /\ UNCHANGED <<inVars, secondTry, dirInfo, caught, firstError, handle,
                   releaseCalls, callerReleases, calls, settled>>

\* as attemptFailed, the rejection carrying the error of the first attempt's
\* `git clone` in place of the error just caught
attemptFailedKeepsFirst(lines) ==
    /\ logged' = lines \cup {AttemptFailedLine(attempt)}
    /\ IF CanRetry(attempt)
       THEN /\ attempt' = attempt + 1
            /\ cmds' = <<cloneCommand>>
            /\ outcomes' = <<>>
            /\ cloneCmds' = cloneCmds + 1
            /\ pc' = "clone"
            /\ error' = error
       ELSE /\ attempt' = attempt
            /\ cmds' = cmds
            /\ outcomes' = Append(outcomes, FALSE)
            /\ cloneCmds' = cloneCmds
            /\ pc' = "failed"
            /\ error' = CommandError(cloneCommand, <<IF secondTry THEN 2 ELSE 1, 1, 1>>)
    /\ ev' = "cmdFail"
    /\ UNCHANGED <<inVars, secondTry, dirInfo, descs, caught, firstError, handle,
                   releaseCalls, callerReleases, calls, settled>>

\* the .catch of the attempt: log, retry(err); promise-retry either starts the
\* next attempt or rejects with err
attemptFailed(lines) ==
    /\ logged' = lines \cup {AttemptFailedLine(attempt)}
    /\ IF CanRetry(attempt)
       THEN /\ attempt' = attempt + 1
            /\ cmds' = <<cloneCommand>>
            /\ outcomes' = <<>>
            /\ cloneCmds' = cloneCmds + 1
            /\ pc' = "clone"
            /\ error' = error
       ELSE /\ attempt' = attempt
            /\ cmds' = cmds
            /\ outcomes' = Append(outcomes, FALSE)
            /\ cloneCmds' = cloneCmds
            /\ pc' = "failed"
            /\ error' = ThisError
    /\ ev' = "cmdFail"
    /\ UNCHANGED <<inVars, secondTry, dirInfo, descs, caught, firstError, handle,
                   releaseCalls, callerReleases, calls, settled>>

\* as attemptSucceeded, the provenance being the descriptor's as it is
attemptSucceededUnmarked ==
    /\ outcomes' = Append(outcomes, TRUE)
    /\ logged' = {SucceededLine, CreatedLine}
    /\ handle' = fromBaseDir(id, <<Dir>>, "descriptor", DescriptorProvenance)
    /\ descs' = SetLast(descs, "owned")
    /\ pc' = "cloneDone"
    /\ ev' = "cmdOk"
    /\ UNCHANGED <<inVars, secondTry, dirInfo, attempt, cmds, cloneCmds, caught,
                   firstError, error, releaseCalls, callerReleases, calls, settled>>

\* the .then after promiseRetry: the handle is created around the descriptor
attemptSucceeded ==
    /\ outcomes' = Append(outcomes, TRUE)
    /\ logged' = {SucceededLine, CreatedLine}
    /\ handle' = fromBaseDir(id, <<Dir>>, "descriptor",
                             DescriptorProvenance \o <<"\nfreshly cloned">>)
    /\ descs' = SetLast(descs, "owned")
    /\ pc' = "cloneDone"
    /\ ev' = "cmdOk"
    /\ UNCHANGED <<inVars, secondTry, dirInfo, attempt, cmds, cloneCmds, caught,
                   firstError, error, releaseCalls, callerReleases, calls, settled>>

\* one more command of the same attempt is issued
nextCommand(cmd, to, lines, ok) ==
    /\ outcomes' = Append(outcomes, ok)
    /\ cmds' = Append(cmds, cmd)
    /\ logged' = lines
    /\ pc' = to
    /\ ev' = IF ok THEN "cmdOk" ELSE "cmdFail"
    /\ UNCHANGED <<inVars, secondTry, dirInfo, attempt, cloneCmds, descs, caught,
                   firstError, error, handle, releaseCalls, callerReleases, calls, settled>>

\* `git clone` completes
gitCloneDone(ok) ==
    /\ pc = "clone"
    /\ populated' = (populated \/ ok)
    /\ IF ok THEN nextCommand(checkoutCommand(checkoutRef), "checkout1", {}, TRUE)
             ELSE attemptFailed({})

\* as firstCheckoutDone, without the .catch that deepens the clone
firstCheckoutDoneNoPromotion(ok) ==
    /\ pc = "checkout1"
    /\ UNCHANGED populated
    /\ IF ok THEN attemptSucceeded ELSE attemptFailed({})

\* the first `git checkout` completes; its .catch deepens the clone
firstCheckoutDone(ok) ==
    /\ pc = "checkout1"
    /\ UNCHANGED populated
    /\ IF ok THEN attemptSucceeded
             ELSE nextCommand(unshallowCommand, "unshallow", {NotInHistoryLine}, FALSE)

\* as unshallowDone, a failed fetch being issued once more
unshallowDoneFetchesAgain(ok) ==
    /\ pc = "unshallow"
    /\ UNCHANGED populated
    /\ IF ok THEN nextCommand(checkoutCommand(checkoutRef), "checkout2", {}, TRUE)
       ELSE IF Len(cmds) < 4 THEN nextCommand(unshallowCommand, "unshallow", {}, FALSE)
       ELSE attemptFailed({})

\* `git fetch --unshallow` completes
unshallowDone(ok) ==
    /\ pc = "unshallow"
    /\ UNCHANGED populated
    /\ IF ok THEN nextCommand(checkoutCommand(checkoutRef), "checkout2", {}, TRUE)
             ELSE attemptFailed({})

\* the second `git checkout` completes
secondCheckoutDone(ok) ==
    /\ pc = "checkout2"
    /\ UNCHANGED populated
    /\ IF ok THEN attemptSucceeded ELSE attemptFailed({})

\* as reuseStepDone, going on to the next step after a step that failed
reuseStepDoneSkipsFailure(ok) ==
    /\ pc \in {ReuseSteps[i] : i \in 1..Len(ReuseSteps)}
    /\ outcomes' = Append(outcomes, ok)
    /\ ev' = IF ok THEN "cmdOk" ELSE "cmdFail"
    /\ IF StepIndex(pc) < Len(ReuseSteps)
       THEN /\ cmds' = Append(cmds, ReuseCommand(ReuseSteps[StepIndex(pc) + 1]))
            /\ pc' = ReuseSteps[StepIndex(pc) + 1]
            /\ logged' = {}
            /\ UNCHANGED <<handle, descs, caught, firstError>>
       ELSE IF ok
       THEN /\ handle' = fromBaseDir(id, <<Dir>>, "descriptor",
                                     DescriptorProvenance \o <<"\nRe-using existing clone">>)
            /\ descs' = SetLast(descs, "owned")
            /\ logged' = {CreatedLine}
            /\ pc' = "cloneDone"
            /\ UNCHANGED <<cmds, caught, firstError>>
       ELSE /\ caught' = ThisError
            /\ firstError' = IF secondTry THEN firstError ELSE ThisError
            /\ pc' = "invalidating"
            /\ logged' = {}
            /\ UNCHANGED <<cmds, handle, descs>>
    /\ UNCHANGED <<inVars, secondTry, dirInfo, attempt, cloneCmds, populated, error,
                   releaseCalls, callerReleases, calls, settled>>

\* as reuseStepDone, a failed step starting the reuse again in place
reuseStepDoneRetriesInPlace(ok) ==
    /\ pc \in {ReuseSteps[i] : i \in 1..Len(ReuseSteps)}
    /\ ev' = IF ok THEN "cmdOk" ELSE "cmdFail"
    /\ IF ok /\ StepIndex(pc) < Len(ReuseSteps)
       THEN /\ cmds' = Append(cmds, ReuseCommand(ReuseSteps[StepIndex(pc) + 1]))
            /\ outcomes' = Append(outcomes, ok)
            /\ pc' = ReuseSteps[StepIndex(pc) + 1]
            /\ logged' = {}
            /\ UNCHANGED <<handle, descs, caught, firstError>>
       ELSE IF ok
       THEN /\ handle' = fromBaseDir(id, <<Dir>>, "descriptor",
                                     DescriptorProvenance \o <<"\nRe-using existing clone">>)
            /\ descs' = SetLast(descs, "owned")
            /\ outcomes' = Append(outcomes, ok)
            /\ logged' = {CreatedLine}
            /\ pc' = "cloneDone"
            /\ UNCHANGED <<cmds, caught, firstError>>
       ELSE /\ cmds' = <<ReuseCommand("resetOrigin")>>
            /\ outcomes' = <<>>
            /\ pc' = "resetOrigin"
            /\ logged' = {}
            /\ UNCHANGED <<handle, descs, caught, firstError>>
    /\ UNCHANGED <<inVars, secondTry, dirInfo, attempt, cloneCmds, populated, error,
                   releaseCalls, callerReleases, calls, settled>>

\* a command of the reuse path completes: the next one, the handle, or the catch
reuseStepDone(ok) ==
    /\ pc \in {ReuseSteps[i] : i \in 1..Len(ReuseSteps)}
    /\ outcomes' = Append(outcomes, ok)
    /\ ev' = IF ok THEN "cmdOk" ELSE "cmdFail"
    /\ IF ok /\ StepIndex(pc) < Len(ReuseSteps)
       THEN /\ cmds' = Append(cmds, ReuseCommand(ReuseSteps[StepIndex(pc) + 1]))
            /\ pc' = ReuseSteps[StepIndex(pc) + 1]
            /\ logged' = {}
            /\ UNCHANGED <<handle, descs, caught, firstError>>
       ELSE IF ok
       THEN /\ handle' = fromBaseDir(id, <<Dir>>, "descriptor",
                                     DescriptorProvenance \o <<"\nRe-using existing clone">>)
            /\ descs' = SetLast(descs, "owned")
            /\ logged' = {CreatedLine}
            /\ pc' = "cloneDone"
            /\ UNCHANGED <<cmds, caught, firstError>>
       ELSE /\ caught' = ThisError
            /\ firstError' = IF secondTry THEN firstError ELSE ThisError
            /\ pc' = "invalidating"
            /\ logged' = {}
            /\ UNCHANGED <<cmds, handle, descs>>
    /\ UNCHANGED <<inVars, secondTry, dirInfo, attempt, cloneCmds, populated, error,
                   releaseCalls, callerReleases, calls, settled>>

\* as invalidateDone, retrying whatever secondTry is
invalidateDoneAlwaysRetries ==
    /\ pc = "invalidating"
    /\ descs' = SetLast(descs, "invalidated")
    /\ pc' = "resolve"
    /\ error' = error
    /\ secondTry' = TRUE
    /\ logged' = {}
    /\ ev' = "invalidate"
    /\ UNCHANGED <<inVars, dirInfo, attempt, cmds, outcomes, cloneCmds, populated, caught,
                   firstError, handle, releaseCalls, callerReleases, calls, settled>>

\* as invalidateDone, rethrowing the error the first try caught
invalidateDoneRethrowsFirst ==
    /\ pc = "invalidating"
    /\ descs' = SetLast(descs, "invalidated")
    /\ IF secondTry
       THEN /\ pc' = "failed"
            /\ error' = firstError
            /\ secondTry' = secondTry
       ELSE /\ pc' = "resolve"
            /\ error' = error
            /\ secondTry' = TRUE
    /\ logged' = {}
    /\ ev' = "invalidate"
    /\ UNCHANGED <<inVars, dirInfo, attempt, cmds, outcomes, cloneCmds, populated, caught,
                   firstError, handle, releaseCalls, callerReleases, calls, settled>>

\* cloneDirectoryInfo.invalidate() resolves: rethrow, or clone(..., true)
invalidateDone ==
    /\ pc = "invalidating"
    /\ descs' = SetLast(descs, "invalidated")
    /\ IF secondTry
       THEN /\ pc' = "failed"
            /\ error' = caught
            /\ secondTry' = secondTry
       ELSE /\ pc' = "resolve"
            /\ error' = error
            /\ secondTry' = TRUE
    /\ logged' = {}
    /\ ev' = "invalidate"
    /\ UNCHANGED <<inVars, dirInfo, attempt, cmds, outcomes, cloneCmds, populated, caught,
                   firstError, handle, releaseCalls, callerReleases, calls, settled>>

pathInsideRepo == IF Head(id.path) = "/" THEN id.path ELSE <<"/">> \o id.path

\* cloned() after clone() resolved: the handle the caller gets
clonedReturns ==
    /\ pc = "cloneDone"
    /\ IF id.path # Empty
       THEN /\ handle' = fromBaseDir(id, handle.baseDir \o pathInsideRepo, "parent",
                             handle.provenance \o <<"\ncopied into one with extra path ">>
                                 \o id.path)
            /\ logged' = {CreatedLine}
       ELSE /\ handle' = handle
            /\ logged' = {}
    /\ pc' = "returned"
    /\ secondTry' = FALSE
    /\ dirInfo' = "none"
    /\ attempt' = 0
    /\ cmds' = <<>>
    /\ outcomes' = <<>>
    /\ cloneCmds' = 0
    /\ descs' = <<>>
    /\ populated' = FALSE
    /\ caught' = NoError
    /\ firstError' = NoError
    /\ opts' = DefaultCloneOptions
    /\ ev' = "returned"
    /\ UNCHANGED <<id, urlForm, caller, server, error, releaseCalls, callerReleases, calls,
                   settled>>

\* as ReleaseInvocations, the derived handle's callback not calling p.release()
ReleaseInvocationsParentDropped(h) ==
    CASE h.release = "descriptor" -> 1
      [] h.release = "parent"     -> 0
      [] h.release = "none"       -> 0

\* invocations of the descriptor's release callback by handle.release(): the
\* callback itself, the derived handle's () => p.release(), or none
ReleaseInvocations(h) ==
    CASE h.release = "descriptor" -> 1
      [] h.release = "parent"     -> 1
      [] h.release = "none"       -> 0

\* the caller releases the handle it was given
release ==
    /\ pc = "returned"
    /\ handle.exists
    /\ callerReleases < MaxReleases
    /\ callerReleases' = callerReleases + 1
    /\ releaseCalls' = releaseCalls + ReleaseInvocations(handle)
    /\ logged' = {}
    /\ ev' = "release"
    /\ settled' = NoSettled
    /\ UNCHANGED <<inVars, opVars, pc, handle, calls>>

-----------------------------------------------------------------------------
(* The Git verbs of the handle *)

\* s.match(/[a-fA-F0-9]{40}/) != null
isValidSHA1(s) ==
    \E i \in 1..(Len(s) - ShaLen + 1) : \A k \in i..(i + ShaLen - 1) : s[k] \in HexChars

\* message.replace(/"/g, `\\"`)
RECURSIVE escapeQuotes(_)
escapeQuotes(m) ==
    IF m = Empty THEN Empty
    ELSE (IF Head(m) = "\"" THEN <<"\\", "\"">> ELSE <<Head(m)>>) \o escapeQuotes(Tail(m))

PlainRemote == <<"https:", "//", "github.com/acme/widgets.git">>

\* the identity createAndSetRemote is given
NewRepoId == [kind |-> "remote", repo |-> "gadgets", branch |-> Empty, sha |-> <<"master">>, path |-> Empty]

Messages == {<<"fix">>, <<"say ", "\"", "hi", "\"">>}

RemoveAt(seq, i) == SubSeq(seq, 1, i - 1) \o SubSeq(seq, i + 1, Len(seq))

\* a verb may be invoked: the caller has the handle, and awaits if it is one that does
CanCall ==
    /\ pc = "returned"
    /\ handle.exists
    /\ Awaits(caller) => calls = <<>>
    /\ Len(calls) < MaxCalls

\* runCommandInCurrentWorkingDirectory(cmd) as the first command of a verb;
\* `before` is the branch and remote the handle had when the verb was invoked
Invoke(verb, arg, cmd) ==
    /\ calls' = Append(calls, [verb |-> verb, arg |-> arg, stage |-> 1, running |-> <<cmd>>,
                               before |-> [branch |-> handle.branch, remote |-> handle.remote]])
    /\ settled' = NoSettled

\* the promise of invocation i settles: resolved with value, or rejected with it,
\* having read result
SettleFrom(i, ok, value, result) ==
    /\ calls' = RemoveAt(calls, i)
    /\ settled' = [verb |-> calls[i].verb,
                   arg |-> calls[i].arg,
                   outcome |-> IF ok THEN "resolved" ELSE "rejected",
                   value |-> value,
                   from |-> result]
    /\ ev' = IF ok THEN "verbOk" ELSE "verbFail"

SettleWith(i, ok, value) == SettleFrom(i, ok, value, NoResult)

\* the promise of invocation i settles as its last command did
Settle(i, ok) == SettleWith(i, ok, IF ok THEN CommandResult ELSE FailureText)

\* invocation i issues its next command
Continue(i, cmd) ==
    /\ calls' = [calls EXCEPT ![i].stage = @ + 1, ![i].running = <<cmd>>]
    /\ settled' = NoSettled
    /\ ev' = "cmdOk"

Running(i, verb, stage) ==
    /\ i \in DOMAIN calls
    /\ calls[i].verb = verb
    /\ calls[i].stage = stage

verbFrame == <<inVars, opVars, pc, releaseCalls, callerReleases>>

init ==
    /\ CanCall
    /\ handle' = [handle EXCEPT !.newRepo = TRUE, !.branch = <<"master">>]
    /\ Invoke("init", Empty, <<"git init">>)
    /\ logged' = {}
    /\ ev' = "call"
    /\ UNCHANGED verbFrame

initDone(i, ok) ==
    /\ Running(i, "init", 1)
    /\ Settle(i, ok)
    /\ logged' = {}
    /\ UNCHANGED <<verbFrame, handle>>

setRemote(remote) ==
    /\ CanCall
    /\ handle' = [handle EXCEPT !.remote = remote]
    /\ Invoke("setRemote", remote, <<"git remote add origin ">> \o remote)
    /\ logged' = {}
    /\ ev' = "call"
    /\ UNCHANGED verbFrame

setRemoteDone(i, ok) ==
    /\ Running(i, "setRemote", 1)
    /\ Settle(i, ok)
    /\ logged' = {}
    /\ UNCHANGED <<verbFrame, handle>>

setUserConfig(user, email) ==
    /\ CanCall
    /\ Invoke("setUserConfig", email, <<"git config user.name \"", user, "\"">>)
    /\ logged' = {}
    /\ ev' = "call"
    /\ UNCHANGED <<verbFrame, handle>>

\* as setUserConfigDone, going on to user.email whatever became of user.name
setUserConfigDoneIgnoresFailure(i, ok) ==
    /\ \/ Running(i, "setUserConfig", 1)
       \/ Running(i, "setUserConfig", 2)
    /\ IF calls[i].stage = 1
       THEN /\ calls' = [calls EXCEPT ![i].stage = 2,
                             ![i].running = <<<<"git config user.email \"">> \o calls[i].arg
                                                 \o <<"\"">>>>]
            /\ settled' = NoSettled
            /\ ev' = IF ok THEN "cmdOk" ELSE "cmdFail"
       ELSE Settle(i, ok)
    /\ logged' = {}
    /\ UNCHANGED <<verbFrame, handle>>

setUserConfigDone(i, ok) ==
    /\ \/ Running(i, "setUserConfig", 1)
       \/ Running(i, "setUserConfig", 2)
    /\ IF ok /\ calls[i].stage = 1
       THEN Continue(i, <<"git config user.email \"">> \o calls[i].arg \o <<"\"">>)
       ELSE Settle(i, ok)
    /\ logged' = {}
    /\ UNCHANGED <<verbFrame, handle>>

\* this.id = gid; gid.createRemote(...) is pending, no command is in flight
createAndSetRemote(gid) ==
    /\ CanCall
    /\ handle' = [handle EXCEPT !.id = gid]
    /\ calls' = Append(calls, [verb |-> "createAndSetRemote", arg |-> Empty, stage |-> 0,
                               running |-> <<>>,
                               before |-> [branch |-> handle.branch, remote |-> handle.remote]])
    /\ settled' = NoSettled
    /\ logged' = {}
    /\ ev' = "call"
    /\ UNCHANGED verbFrame

\* res.error of a createRemote that reports failure
CreationError == <<"repository creation failed">>

\* as createRemoteDone, recording the remote whatever createRemote reported
createRemoteDoneRecordsAnyway(i, created) ==
    /\ Running(i, "createAndSetRemote", 0)
    /\ handle' = [handle EXCEPT !.remote = cloneUrl(urlForm, handle.id)]
    /\ IF created
       THEN /\ calls' = [calls EXCEPT ![i].stage = 1,
                             ![i].running = <<<<"git remote add origin ">>
                                                 \o cloneUrl(urlForm, handle.id)>>]
            /\ settled' = NoSettled
            /\ logged' = {<<"Repo created ok">>}
            /\ ev' = "created"
       ELSE /\ SettleWith(i, FALSE, CreationError)
            /\ logged' = {}
    /\ UNCHANGED verbFrame

\* createRemote resolved with res.success = created
createRemoteDone(i, created) ==
    /\ Running(i, "createAndSetRemote", 0)
    /\ IF created
       THEN /\ handle' = [handle EXCEPT !.remote = cloneUrl(urlForm, handle.id)]
            /\ calls' = [calls EXCEPT ![i].stage = 1,
                             ![i].running = <<<<"git remote add origin ">>
                                                 \o cloneUrl(urlForm, handle.id)>>]
            /\ settled' = NoSettled
            /\ logged' = {<<"Repo created ok">>}
            /\ ev' = "created"
       ELSE /\ handle' = handle
            /\ SettleWith(i, FALSE, CreationError)
            /\ logged' = {}
    /\ UNCHANGED verbFrame

createAndSetRemoteDone(i, ok) ==
    /\ Running(i, "createAndSetRemote", 1)
    /\ Settle(i, ok)
    /\ logged' = {}
    /\ UNCHANGED <<verbFrame, handle>>

\* as commit, issuing `git commit` without waiting for `git add .`
commitWithoutWaiting(message) ==
    /\ CanCall
    /\ calls' = Append(calls, [verb |-> "commit", arg |-> message, stage |-> 2,
                               running |-> <<<<"git add .">>,
                                             <<"git commit -a -m \"">>
                                                 \o escapeQuotes(message) \o <<"\"">>>>,
                               before |-> [branch |-> handle.branch, remote |-> handle.remote]])
    /\ logged' = {}
    /\ settled' = NoSettled
    /\ ev' = "call"
    /\ UNCHANGED <<verbFrame, handle>>

commit(message) ==
    /\ CanCall
    /\ Invoke("commit", message, <<"git add .">>)
    /\ logged' = {}
    /\ ev' = "call"
    /\ UNCHANGED <<verbFrame, handle>>

\* as commitDone, the message put between the quotes as it was given
commitDoneUnescaped(i, ok) ==
    /\ \/ Running(i, "commit", 1)
       \/ Running(i, "commit", 2)
    /\ IF ok /\ calls[i].stage = 1
       THEN Continue(i, <<"git commit -a -m \"">> \o calls[i].arg \o <<"\"">>)
       ELSE Settle(i, ok)
    /\ logged' = {}
    /\ UNCHANGED <<verbFrame, handle>>

commitDone(i, ok) ==
    /\ \/ Running(i, "commit", 1)
       \/ Running(i, "commit", 2)
    /\ IF ok /\ calls[i].stage = 1
       THEN Continue(i, <<"git commit -a -m \"">> \o escapeQuotes(calls[i].arg) \o <<"\"">>)
       ELSE Settle(i, ok)
    /\ logged' = {}
    /\ UNCHANGED <<verbFrame, handle>>

checkout(ref) ==
    /\ CanCall
    /\ Invoke("checkout", ref, checkoutCommand(ref))
    /\ logged' = {}
    /\ ev' = "call"
    /\ UNCHANGED <<verbFrame, handle>>

\* after the await: the branch is recorded unless the ref is a SHA
checkoutDone(i, ok) ==
    /\ Running(i, "checkout", 1)
    /\ handle' = IF ok /\ ~isValidSHA1(calls[i].arg)
                 THEN [handle EXCEPT !.branch = calls[i].arg]
                 ELSE handle
    /\ Settle(i, ok)
    /\ logged' = {}
    /\ UNCHANGED verbFrame

\* clean(this.baseDir)
revert ==
    /\ CanCall
    /\ Invoke("revert", Empty, <<"pwd">>)
    /\ logged' = {}
    /\ ev' = "call"
    /\ UNCHANGED <<verbFrame, handle>>

revertDone(i, ok) ==
    /\ \E stage \in 1..3 : Running(i, "revert", stage)
    /\ IF ok /\ calls[i].stage < 3
       THEN Continue(i, IF calls[i].stage = 1 THEN <<"git clean -dfx">>
                                              ELSE <<"git checkout -- .">>)
       ELSE Settle(i, ok)
    /\ logged' = {}
    /\ UNCHANGED <<verbFrame, handle>>

\* the end of the push command: the known remote and branch, or upstream tracking
\* as pushTarget, looking at the remote only
pushTargetRemoteOnly(h) ==
    IF h.remote # Empty
    THEN <<" ">> \o h.remote \o <<" ">> \o h.branch
    ELSE <<" --set-upstream origin ">> \o h.branch

pushTarget(h) ==
    IF h.branch # Empty /\ h.remote # Empty
    THEN <<" ">> \o h.remote \o <<" ">> \o h.branch
    ELSE <<" --set-upstream origin ">> \o h.branch

\* k.replace(/_/g, "-")
RECURSIVE replaceUnderscores(_)
replaceUnderscores(k) ==
    IF k = Empty THEN Empty
    ELSE <<IF Head(k) = "_" THEN "-" ELSE Head(k)>> \o replaceUnderscores(Tail(k))

\* as optionFlag, a false boolean rendered like a true one
optionFlagIgnoresFalse(o) ==
    LET opt == replaceUnderscores(o.key)
    IN  IF o.type = "boolean" THEN <<" --">> \o opt
        ELSE IF o.type = "string" THEN <<" --">> \o opt \o <<"=">> \o o.v
        ELSE Empty

\* what the callback of _.forOwn appends to gitPushCmd for option o; for a value
\* that is neither boolean nor string the callback returns a rejected promise
\* that forOwn drops, and nothing is appended
optionFlag(o) ==
    LET opt == replaceUnderscores(o.key)
    IN  IF o.type = "boolean"
        THEN IF o.v = <<"false">> THEN <<" --no-">> \o opt ELSE <<" --">> \o opt
        ELSE IF o.type = "string" THEN <<" --">> \o opt \o <<"=">> \o o.v
        ELSE Empty

\* _.forOwn(options, ...): the options in the order of the object's keys
RECURSIVE optionFlags(_)
optionFlags(options) ==
    IF options = <<>> THEN Empty ELSE optionFlag(Head(options)) \o optionFlags(Tail(options))

Option(key, type, v) == [key |-> key, type |-> type, v |-> v]

\* option keys, in characters where a character matters
SetUpstreamCamel == <<"set", "U", "pstream">>
SetUpstreamSnake == <<"set", "_", "u", "pstream">>

\* the options objects a caller passes to push; <<>> is none
PushOptions ==
    { <<>>,
      <<Option(<<"force">>, "boolean", <<"true">>), Option(SetUpstreamCamel, "boolean", <<"false">>)>>,
      <<Option(<<"force">>, "boolean", <<"true">>), Option(SetUpstreamSnake, "boolean", <<"false">>)>>,
      <<Option(<<"repo">>, "string", <<"upstream">>), Option(<<"follow", "_", "tags">>, "boolean", <<"true">>)>>,
      <<Option(<<"verbose">>, "number", <<"2">>), Option(<<"force">>, "boolean", <<"false">>)>> }

push(options) ==
    /\ CanCall
    /\ Invoke("push", options, <<"git push">> \o optionFlags(options) \o pushTarget(handle))
    /\ logged' = {}
    /\ ev' = "call"
    /\ UNCHANGED <<verbFrame, handle>>

\* err.message of a failed push, which logger.error receives
pushErrorLine(cmd) == <<"Unable to push '">> \o cmd \o <<"': ">> \o FailureText

\* as pushDone, issuing the command once more after a failure
pushDoneRetries(i, ok) ==
    /\ Running(i, "push", 1) \/ Running(i, "push", 2)
    /\ IF ~ok /\ calls[i].stage = 1
       THEN Continue(i, calls[i].running[1])
       ELSE SettleWith(i, ok, IF ok THEN CommandResult ELSE pushErrorLine(calls[i].running[1]))
    /\ logged' = IF ok THEN {} ELSE {pushErrorLine(calls[i].running[1])}
    /\ UNCHANGED <<verbFrame, handle>>

\* the command settled; on failure err.message is rewritten and logged, and the
\* verb rejects with err
pushDone(i, ok) ==
    /\ Running(i, "push", 1)
    /\ SettleWith(i, ok, IF ok THEN CommandResult ELSE pushErrorLine(calls[i].running[1]))
    /\ logged' = IF ok THEN {} ELSE {pushErrorLine(calls[i].running[1])}
    /\ UNCHANGED <<verbFrame, handle>>

createBranch(name) ==
    /\ CanCall
    /\ Invoke("createBranch", name, <<"git branch ">> \o name)
    /\ logged' = {}
    /\ ev' = "call"
    /\ UNCHANGED <<verbFrame, handle>>

\* as createBranchDone, recording the branch once `git branch` succeeded
createBranchDoneRecordsEarly(i, ok) ==
    /\ \/ Running(i, "createBranch", 1)
       \/ Running(i, "createBranch", 2)
    /\ IF ok /\ calls[i].stage = 1
       THEN /\ Continue(i, checkoutCommand(calls[i].arg))
            /\ handle' = [handle EXCEPT !.branch = calls[i].arg]
       ELSE /\ Settle(i, ok)
            /\ handle' = handle
    /\ logged' = {}
    /\ UNCHANGED verbFrame

createBranchDone(i, ok) ==
    /\ \/ Running(i, "createBranch", 1)
       \/ Running(i, "createBranch", 2)
    /\ IF ok /\ calls[i].stage = 1
       THEN /\ Continue(i, checkoutCommand(calls[i].arg))
            /\ handle' = handle
       ELSE /\ Settle(i, ok)
            /\ handle' = IF ok THEN [handle EXCEPT !.branch = calls[i].arg] ELSE handle
    /\ logged' = {}
    /\ UNCHANGED verbFrame

isClean ==
    /\ CanCall
    /\ Invoke("isClean", Empty, <<"git status --porcelain">>)
    /\ logged' = {}
    /\ ev' = "call"
    /\ UNCHANGED <<verbFrame, handle>>

\* stands for a stdout that is undefined, which is no string
Undefined == <<"(undefined)">>

\* what `git status --porcelain` may leave in stdout
StatusStdouts == {Empty, <<" ">>, <<"\n">>, <<" M ", "README.md", "\n">>, Undefined}

StatusOutcomes ==
    {[settles |-> "rejected", success |-> FALSE, stdout |-> Empty]}
        \cup [settles : {"resolved"}, success : BOOLEAN, stdout : StatusStdouts]

\* as isCleanDone, taking a stdout of white space for an empty one
isCleanDoneTrims(i, result) ==
    /\ Running(i, "isClean", 1)
    /\ IF result.settles = "rejected"
       THEN SettleFrom(i, FALSE, FailureText, result)
       ELSE SettleFrom(i, TRUE,
                       IF result.stdout # Undefined /\ result.stdout \in {Empty, <<" ">>, <<"\n">>}
                       THEN <<"true">> ELSE <<"false">>,
                       result)
    /\ logged' = {}
    /\ UNCHANGED <<verbFrame, handle>>

\* the command settled: the result is passed on with
\* success: commandResult.stdout !== undefined && commandResult.stdout === ""
isCleanDone(i, result) ==
    /\ Running(i, "isClean", 1)
    /\ IF result.settles = "rejected"
       THEN SettleFrom(i, FALSE, FailureText, result)
       ELSE SettleFrom(i, TRUE,
                       IF result.stdout # Undefined /\ result.stdout = Empty
                       THEN <<"true">> ELSE <<"false">>,
                       result)
    /\ logged' = {}
    /\ UNCHANGED <<verbFrame, handle>>

\* the identity has the capabilities of a RemoteRepoRef
isRemoteRepoRef(r) == r.kind = "remote"

\* a throw of a verb at the point of the call: no promise is returned
Throw(verb, message) ==
    /\ calls' = calls
    /\ settled' = [verb |-> verb, arg |-> Empty, outcome |-> "thrown", value |-> message,
                   from |-> NoResult]
    /\ ev' = "verbThrow"

\* this.id.raisePullRequest(credentials, title, body, this.branch, targetBranch)
\* is pending: `arg` is the source branch it was given, no command is in flight
Delegate(verb, arg) ==
    /\ calls' = Append(calls, [verb |-> verb, arg |-> arg, stage |-> 0, running |-> <<>>,
                               before |-> [branch |-> handle.branch, remote |-> handle.remote]])
    /\ settled' = NoSettled
    /\ ev' = "call"

\* as raisePullRequest, without the test of the branch
raisePullRequestAnyBranch ==
    /\ CanCall
    /\ IF ~isRemoteRepoRef(handle.id)
       THEN Throw("raisePullRequest", <<"No remote in ", "id">>)
       ELSE Delegate("raisePullRequest", handle.branch)
    /\ logged' = {}
    /\ UNCHANGED <<verbFrame, handle>>

raisePullRequest ==
    /\ CanCall
    /\ IF handle.branch = Empty
       THEN Throw("raisePullRequest", <<"Cannot create a PR: no branch has been created">>)
       ELSE IF ~isRemoteRepoRef(handle.id)
       THEN Throw("raisePullRequest", <<"No remote in ", "id">>)
       ELSE Delegate("raisePullRequest", handle.branch)
    /\ logged' = {}
    /\ UNCHANGED <<verbFrame, handle>>

\* the identity's raisePullRequest settled; .then(() => successOn(this))
raisePullRequestDone(i, ok) ==
    /\ Running(i, "raisePullRequest", 0)
    /\ SettleWith(i, ok, IF ok THEN <<"successOn">> ELSE <<"pull request failed">>)
    /\ logged' = {}
    /\ UNCHANGED <<verbFrame, handle>>

hasBranch(name) ==
    /\ CanCall
    /\ Invoke("hasBranch", name, <<"git branch --list ">> \o name)
    /\ logged' = {}
    /\ ev' = "call"
    /\ UNCHANGED <<verbFrame, handle>>

\* stdout.includes(name)
includes(stdout, name) ==
    \E k \in 1..(Len(stdout) - Len(name) + 1) : SubSeq(stdout, k, k + Len(name) - 1) = name

\* what `git branch --list` may print
Stdouts == {Empty, <<"  ", "topic", "\n">>, <<"* ", "topic", "-2", "\n">>, <<"  ", "main", "\n">>}

\* what runCommand may give: a rejection, or a result with a success flag and stdout
CommandOutcomes ==
    {[settles |-> "rejected", success |-> FALSE, stdout |-> Empty]}
        \cup [settles : {"resolved"}, success : BOOLEAN, stdout : Stdouts]

hasBranchError(name) ==
    <<"command <git branch --list ">> \o name \o <<"> failed: ", "stderr">>

\* as hasBranchDone, a result without success giving false
hasBranchDoneFoldsFailure(i, result) ==
    /\ Running(i, "hasBranch", 1)
    /\ IF result.settles = "rejected"
       THEN SettleFrom(i, FALSE, FailureText, result)
       ELSE IF result.success /\ includes(result.stdout, calls[i].arg)
       THEN SettleFrom(i, TRUE, <<"true">>, result)
       ELSE SettleFrom(i, TRUE, <<"false">>, result)
    /\ logged' = {}
    /\ UNCHANGED <<verbFrame, handle>>

hasBranchDone(i, result) ==
    /\ Running(i, "hasBranch", 1)
    /\ IF result.settles = "rejected"
       THEN SettleFrom(i, FALSE, FailureText, result)
       ELSE IF result.success /\ includes(result.stdout, calls[i].arg)
       THEN SettleFrom(i, TRUE, <<"true">>, result)
       ELSE IF result.success
       THEN SettleFrom(i, TRUE, <<"false">>, result)
       ELSE SettleFrom(i, FALSE, hasBranchError(calls[i].arg), result)
    /\ logged' = {}
    /\ UNCHANGED <<verbFrame, handle>>

HexRun(n) == [i \in 1..n |-> IF i % 3 = 0 THEN "F" ELSE IF i % 3 = 1 THEN "a" ELSE "9"]

\* hexadecimal runs of ShaLen - 1, ShaLen and ShaLen + 1 digits, a run of ShaLen
\* characters with one that is no digit, and a name; each inside some padding
AllRefs ==
    {Rep(p, "x") \o run \o Rep(q, "-") :
        p \in 0..MaxPad, q \in 0..MaxPad,
        run \in {HexRun(ShaLen - 1), HexRun(ShaLen), HexRun(ShaLen + 1),
                 [HexRun(ShaLen) EXCEPT ![ShaLen \div 2] = "g"], <<"main">>}}

\* the refs a caller checks out; the empty string is a ref too
Refs(c) == IF c = "checking" THEN AllRefs ELSE {<<"main">>, Sha, Empty}

Slots == 1..MaxCalls

VerbNext ==
    \/ init
    \/ \E i \in Slots, ok \in BOOLEAN : initDone(i, ok)
    \/ \E remote \in {PlainRemote, cloneUrl(urlForm, id)} : setRemote(remote)
    \/ \E i \in Slots, ok \in BOOLEAN : setRemoteDone(i, ok)
    \/ setUserConfig("bot", <<"bot@example.com">>)
    \/ \E i \in Slots, ok \in BOOLEAN : setUserConfigDone(i, ok)
    \/ createAndSetRemote(NewRepoId)
    \/ \E i \in Slots, created \in BOOLEAN : createRemoteDone(i, created)
    \/ \E i \in Slots, ok \in BOOLEAN : createAndSetRemoteDone(i, ok)
    \/ \E message \in Messages : commit(message)
    \/ \E i \in Slots, ok \in BOOLEAN : commitDone(i, ok)
    \/ \E ref \in Refs(caller) : checkout(ref)
    \/ \E i \in Slots, ok \in BOOLEAN : checkoutDone(i, ok)
    \/ revert
    \/ \E i \in Slots, ok \in BOOLEAN : revertDone(i, ok)
    \/ \E options \in PushOptions : push(options)
    \/ \E i \in Slots, ok \in BOOLEAN : pushDone(i, ok)
    \/ \E name \in {<<"topic">>} : createBranch(name)
    \/ \E i \in Slots, ok \in BOOLEAN : createBranchDone(i, ok)
    \/ raisePullRequest
    \/ \E i \in Slots, ok \in BOOLEAN : raisePullRequestDone(i, ok)
    \/ isClean
    \/ \E i \in Slots, result \in StatusOutcomes : isCleanDone(i, result)
    \/ \E name \in {<<"topic">>} : hasBranch(name)
    \/ \E i \in Slots, result \in CommandOutcomes : hasBranchDone(i, result)

-----------------------------------------------------------------------------
(* Specifications *)

CloneNext ==
    \/ \E type \in DescriptorTypes : directoryFor(type)
    \/ \E ok \in BOOLEAN : gitCloneDone(ok)
    \/ \E ok \in BOOLEAN : firstCheckoutDone(ok)
    \/ \E ok \in BOOLEAN : unshallowDone(ok)
    \/ \E ok \in BOOLEAN : secondCheckoutDone(ok)
    \/ \E ok \in BOOLEAN : reuseStepDone(ok)
    \/ invalidateDone
    \/ clonedReturns
    \/ release

\* a clone operation, and the use of the handle it returns by a caller that awaits
Next == CloneNext \/ VerbNext

Spec == Init /\ [][Next]_vars

\* the same with a caller that does not await a verb before invoking the next
InitOverlap ==
    \E path \in {Empty, <<"sub">>} :
        Start([kind |-> "remote", repo |-> "widgets", branch |-> <<"main">>, sha |-> <<"master">>,
               path |-> path],
              DefaultCloneOptions, "oauth", "overlapping")

\* the verbs that caller invokes: commit, checkout and revert
NextOverlap ==
    \/ CloneNext
    \/ \E message \in Messages : commit(message)
    \/ \E i \in Slots, ok \in BOOLEAN : commitDone(i, ok)
    \/ \E ref \in Refs(caller) : checkout(ref)
    \/ \E i \in Slots, ok \in BOOLEAN : checkoutDone(i, ok)
    \/ revert
    \/ \E i \in Slots, ok \in BOOLEAN : revertDone(i, ok)

SpecOverlap == InitOverlap /\ [][NextOverlap]_vars

-----------------------------------------------------------------------------
(* checkout(ref) over the shapes of ref *)

\* fromBaseDir has wrapped an existing directory for a caller that checks out refs
InitCheckout ==
    /\ id = [kind |-> "remote", repo |-> "widgets", branch |-> Empty, sha |-> <<"master">>,
             path |-> Empty]
    /\ opts = DefaultCloneOptions
    /\ urlForm = "oauth"
    /\ caller = "checking"
    /\ pc = "returned"
    /\ secondTry = FALSE
    /\ dirInfo = "none"
    /\ attempt = 0
    /\ cmds = <<>>
    /\ outcomes = <<>>
    /\ cloneCmds = 0
    /\ descs = <<>>
    /\ populated = FALSE
    /\ caught = NoError
    /\ firstError = NoError
    /\ error = NoError
    /\ logged = {CreatedLine}
    /\ handle = fromBaseDir(id, <<Dir>>, "none", <<"existing directory">>)
    /\ releaseCalls = 0
    /\ callerReleases = 0
    /\ calls = <<>>
    /\ settled = NoSettled
    /\ ev = "start"
    /\ server = NoServer

NextCheckout ==
    \/ \E ref \in Refs(caller) : checkout(ref)
    \/ \E ok \in BOOLEAN : checkoutDone(1, ok)

SpecCheckout == InitCheckout /\ [][NextCheckout]_vars


-----------------------------------------------------------------------------
(* The clone operation on its own *)

\* every command, every call of the directory manager and every invalidate
\* settles, and the caller takes the handle it is given: a step of the
\* operation that can be taken is taken
SpecClone == Init /\ [][CloneNext]_vars /\ WF_vars(CloneNext)

-----------------------------------------------------------------------------
(* Verbs on a handle that wraps a local directory *)

\* the identities fromBaseDir is given: a RepoRef need not be remote-capable and
\* need not name a branch or a sha
LocalIds == [kind : {"remote", "local"}, repo : {"widgets"}, branch : {Empty, <<"main">>},
             sha : {Empty, <<"master">>}, path : {Empty}]

\* fromBaseDir(i, Dir, ...) has returned the handle to caller c
Wrapped(i, c) ==
    /\ id = i
    /\ opts = DefaultCloneOptions
    /\ urlForm = "oauth"
    /\ caller = c
    /\ pc = "returned"
    /\ secondTry = FALSE
    /\ dirInfo = "none"
    /\ attempt = 0
    /\ cmds = <<>>
    /\ outcomes = <<>>
    /\ cloneCmds = 0
    /\ descs = <<>>
    /\ populated = FALSE
    /\ caught = NoError
    /\ firstError = NoError
    /\ error = NoError
    /\ logged = {CreatedLine}
    /\ handle = fromBaseDir(i, <<Dir>>, "none", <<"existing directory">>)
    /\ releaseCalls = 0
    /\ callerReleases = 0
    /\ calls = <<>>
    /\ settled = NoSettled
    /\ ev = "start"
    /\ server = NoServer

InitLocal == \E i \in LocalIds : Wrapped(i, "awaiting")

NextLocal ==
    \/ raisePullRequest
    \/ \E i \in Slots, ok \in BOOLEAN : raisePullRequestDone(i, ok)
    \/ \E ref \in Refs(caller) : checkout(ref)
    \/ \E i \in Slots, ok \in BOOLEAN : checkoutDone(i, ok)
    \/ createAndSetRemote(NewRepoId)
    \/ \E i \in Slots, created \in BOOLEAN : createRemoteDone(i, created)
    \/ \E i \in Slots, ok \in BOOLEAN : createAndSetRemoteDone(i, ok)

SpecLocal == InitLocal /\ [][NextLocal]_vars

-----------------------------------------------------------------------------
(* ExpressServer: authentication set-up, guarded routes, requests *)

\* options.auth is absent
NoAuth == [configured |-> FALSE]

\* ExpressServerOptions.auth: absent, or the three blocks with their `enabled`
AuthOptions ==
    {NoAuth} \cup [configured : {TRUE}, github : BOOLEAN, basic : BOOLEAN, bearer : BOOLEAN]

Enabled(auth, strategy) ==
    /\ auth.configured
    /\ CASE strategy = "github" -> auth.github
         [] strategy = "basic"  -> auth.basic
         [] strategy = "bearer" -> auth.bearer

Names(strategies) == {strategies[k] : k \in DOMAIN strategies}

\* the strategies setupAuthentication gives to passport.use, by the name of each
registeredBy(auth) ==
    (IF Enabled(auth, "github") THEN {"github"}
     ELSE IF Enabled(auth, "basic") THEN {"basic"}
     ELSE {})
    \cup (IF Enabled(auth, "bearer") THEN {"bearer"} ELSE {})

EnsureLoggedIn == [kind |-> "ensureLoggedIn", strategies |-> <<>>]
PassThrough == [kind |-> "next", strategies |-> <<>>]
Passport(strategies) == [kind |-> "passport", strategies |-> strategies]
Unguarded == [kind |-> "none", strategies |-> <<>>]

\* this.authenticate(...strategies): the handler put before the route's own
authenticate(auth, strategies) ==
    IF Enabled(auth, "github") /\ "github" \in Names(strategies)
    THEN EnsureLoggedIn
    ELSE LET actualStrategies ==
                 (IF Enabled(auth, "basic") /\ "basic" \in Names(strategies)
                  THEN <<"basic">> ELSE <<>>)
                 \o (IF Enabled(auth, "bearer") /\ "bearer" \in Names(strategies)
                     THEN <<"bearer">> ELSE <<>>)
         IN  IF Len(actualStrategies) > 0 THEN Passport(actualStrategies) ELSE PassThrough

Route(method, path, via, strategies) ==
    [method |-> method, path |-> path, via |-> via, strategies |-> strategies]

\* the routes the constructor sets up, in its order, for one command handler and
\* one ingestor; via tells how the guard is made: by this.authenticate, by
\* passport.authenticate directly, or no guard
RouteTable(auth) ==
    (IF Enabled(auth, "github")
     THEN << Route("GET", "/auth/github", "passport", <<"github">>),
             Route("GET", "/auth/github/callback", "passport", <<"github">>) >>
     ELSE <<>>)
    \o << Route("GET", "/automations", "authenticate", <<"bearer">>),
          Route("GET", "/metrics", "authenticate", <<"bearer">>),
          Route("GET", "/log/events", "authenticate", <<"bearer">>),
          Route("GET", "/log/commands", "authenticate", <<"bearer">>),
          Route("GET", "/log/messages", "authenticate", <<"bearer">>),
          Route("GET", "/series/events", "authenticate", <<"bearer">>),
          Route("GET", "/series/commands", "authenticate", <<"bearer">>),
          Route("GET", "/graphql", "authenticate", <<"github", "basic">>),
          Route("GET", "/", "authenticate", <<"github", "basic">>),
          Route("GET", "/login", "none", <<>>),
          Route("POST", "/command/hello", "authenticate", <<"basic", "bearer">>),
          Route("GET", "/command/hello", "authenticate", <<"basic", "bearer">>),
          Route("POST", "/ingest/build", "none", <<>>) >>

GuardOf(auth, route) ==
    CASE route.via = "authenticate" -> authenticate(auth, route.strategies)
      [] route.via = "passport"     -> Passport(route.strategies)
      [] route.via = "none"         -> Unguarded

NoResponse == [route |-> 0, credential |-> "none", outcome |-> "none"]

\* what a request may carry: nothing, valid basic credentials, the valid bearer
\* token, or the session of a user who logged in
Credentials == {"none", "basic", "bearer", "session"}

\* passport's middleware for a list of strategies: they are tried in order, one
\* that passport does not know ends the request with an error, the first that
\* accepts the credentials lets the request through, and it is unauthorized
\* when all failed
RECURSIVE attemptStrategies(_, _, _)
attemptStrategies(strategies, registered, credential) ==
    IF strategies = <<>> THEN "unauthorized"
    ELSE IF Head(strategies) \notin registered THEN "error"
    ELSE IF Head(strategies) = credential THEN "handled"
    ELSE attemptStrategies(Tail(strategies), registered, credential)

\* what becomes of a request at a guard
Outcome(guard, registered, credential) ==
    CASE guard.kind \in {"none", "next"} -> "handled"
      [] guard.kind = "ensureLoggedIn" -> IF credential = "session" THEN "handled" ELSE "redirect"
      [] guard.kind = "passport" -> attemptStrategies(guard.strategies, registered, credential)

\* new ExpressServer(automations, options, handler), up to setupAuthentication
NewServer(auth) ==
    [pc |-> "setup", auth |-> auth, registered |-> {}, routes |-> <<>>, guards |-> <<>>,
     response |-> NoResponse]

gitFrame ==
    <<id, opts, urlForm, caller, pc, opVars, logged, handle, releaseCalls, callerReleases,
      calls, settled, ev>>

setupAuthentication ==
    /\ server.pc = "setup"
    /\ server' = [server EXCEPT !.pc = "routes", !.registered = registeredBy(server.auth)]
    /\ UNCHANGED gitFrame

\* the constructor's next exp.get or exp.post
addRoute ==
    /\ server.pc = "routes"
    /\ Len(server.routes) < Len(RouteTable(server.auth))
    /\ LET route == RouteTable(server.auth)[Len(server.routes) + 1]
       IN  server' = [server EXCEPT !.routes = Append(@, route),
                                    !.guards = Append(@, GuardOf(server.auth, route))]
    /\ UNCHANGED gitFrame

\* exp.listen
listen ==
    /\ server.pc = "routes"
    /\ Len(server.routes) = Len(RouteTable(server.auth))
    /\ server' = [server EXCEPT !.pc = "listening"]
    /\ UNCHANGED gitFrame

\* a request arrives at route k and meets the route's guard
request(k, credential) ==
    /\ server.pc = "listening"
    /\ k \in DOMAIN server.routes
    /\ server' = [server EXCEPT !.response =
                      [route |-> k, credential |-> credential,
                       outcome |-> Outcome(server.guards[k], server.registered, credential)]]
    /\ UNCHANGED gitFrame

InitExpress ==
    /\ id = NewRepoId
    /\ opts = DefaultCloneOptions
    /\ urlForm = "oauth"
    /\ caller = "none"
    /\ pc = "none"
    /\ secondTry = FALSE
    /\ dirInfo = "none"
    /\ attempt = 0
    /\ cmds = <<>>
    /\ outcomes = <<>>
    /\ cloneCmds = 0
    /\ descs = <<>>
    /\ populated = FALSE
    /\ caught = NoError
    /\ firstError = NoError
    /\ error = NoError
    /\ logged = {}
    /\ handle = NoHandle
    /\ releaseCalls = 0
    /\ callerReleases = 0
    /\ calls = <<>>
    /\ settled = NoSettled
    /\ ev = "start"
    /\ \E auth \in AuthOptions : server = NewServer(auth)

NextExpress ==
    \/ setupAuthentication
    \/ addRoute
    \/ listen
    \/ \E k \in DOMAIN server.routes, credential \in Credentials : request(k, credential)

SpecExpress == InitExpress /\ [][NextExpress]_vars

-----------------------------------------------------------------------------
(* Properties *)

HasToken(line) == \E k \in DOMAIN line : line[k] = Token

Count(seq, x) == Cardinality({k \in DOMAIN seq : seq[k] = x})

\* a clone command is in flight in the clone operation
OperationInFlight == Len(cmds) - Len(outcomes)

RECURSIVE RunningFrom(_)
RunningFrom(k) == IF k > Len(calls) THEN 0 ELSE Len(calls[k].running) + RunningFrom(k + 1)

\* commands in flight against the working directory
InFlight == OperationInFlight + RunningFrom(1)

\* invocation i settles in this step with the given outcome
Settles(i, kind) == ev' = kind /\ calls' = RemoveAt(calls, i)

\* a valid 40-character hexadecimal string
IsFullSha(s) == Len(s) = ShaLen /\ \A k \in DOMAIN s : s[k] \in HexChars

\* C1, as stated: the clone+checkout sequence is attempted at most 4 times, so
\* that no more than 4 `git clone` commands are ever issued by a clone operation.
C1_AtMostFourAttempts == cloneCmds =< 4

\* C1, amended: the clone+checkout sequence is attempted at most 5 times (the
\* first attempt and `retries` = 4 retries); a fresh clone fails only after the
\* 5th failed attempt, and no `git clone` is issued after it.
C1_AtMostFiveAttempts ==
    /\ cloneCmds =< Retries + 1
    /\ cloneCmds = attempt \/ pc \notin {"clone", "checkout1", "unshallow", "checkout2", "failed"}
    /\ pc = "failed" /\ dirInfo = "empty-directory" => cloneCmds = Retries + 1

C1_Witness == pc = "failed" /\ dirInfo = "empty-directory" /\ cloneCmds = Retries + 1

\* C2: in an attempt whose `git clone` succeeded and whose first checkout failed,
\* one `git fetch --unshallow` is run, and when it and the second checkout succeed
\* the clone completes in that attempt; the attempt number grows only in a step in
\* which the clone, the unshallow fetch or the second checkout failed, never by
\* the failure of the first checkout.
C2_PromotionInsideAttempt ==
    /\ [](outcomes = <<TRUE, FALSE, TRUE, TRUE>>
            => /\ pc = "cloneDone"
               /\ handle.exists
               /\ Count(cmds, unshallowCommand) = 1
               /\ cmds = <<cloneCommand, checkoutCommand(checkoutRef), unshallowCommand,
                           checkoutCommand(checkoutRef)>>)
    /\ [](pc = "unshallow" => outcomes = <<TRUE, FALSE>> /\ Count(cmds, unshallowCommand) = 1)
    /\ [][attempt' > attempt /\ attempt > 0
            => pc \in {"clone", "unshallow", "checkout2"} /\ ev' = "cmdFail"]_vars

C2_Witness ==
    /\ pc = "cloneDone"
    /\ outcomes = <<TRUE, FALSE, TRUE, TRUE>>
    /\ opts.depth = 1 /\ ~opts.alwaysDeep
    /\ attempt = 1

\* C3: directoryFor is called at most twice in a clone operation; a second call
\* happens only after a reuse step of the first try failed and the first
\* descriptor was invalidated, and a failure of the second try ends the operation.
C3_ReuseRetriedOnce ==
    /\ Len(descs) =< 2
    /\ pc = "resolve" => Len(descs) = IF secondTry THEN 1 ELSE 0
    /\ secondTry => Len(descs) >= 1 /\ descs[1] = "invalidated" /\ firstError # NoError
    /\ Len(descs) = 2 => secondTry
    /\ pc = "failed" /\ dirInfo = "existing-directory"
          => secondTry /\ descs = <<"invalidated", "invalidated">>
    /\ pc = "invalidating" => caught # NoError

C3_Witness == pc = "failed" /\ secondTry /\ Len(descs) = 2 /\ dirInfo = "existing-directory"

\* C4, as stated: when the reuse failed and the second try failed too, the
\* operation is rejected with the error of the first (reuse) failure.
C4_FirstErrorPropagates == pc = "failed" /\ secondTry => error = firstError

\* C4, amended: when the reuse failed and the second try failed too, the
\* operation is rejected with the error of the second try's failing command; the
\* error of the first (reuse) failure is dropped.
C4_SecondErrorPropagates ==
    pc = "failed" /\ secondTry
        => /\ error # firstError
           /\ error = ThisError
           /\ error.at[1] = 2

C4_Witness == pc = "failed" /\ secondTry /\ firstError # NoError /\ error # NoError

\* C5: a verb whose command fails leaves the handle's branch and remote as they
\* were when the verb was invoked.
C5_FailedVerbLeavesFields ==
    [][\A i \in DOMAIN calls :
          Settles(i, "verbFail")
              => /\ handle'.branch = calls[i].before.branch
                 /\ handle'.remote = calls[i].before.remote]_vars

\* C6: a successful checkout(ref) leaves the branch unchanged when ref is a valid
\* 40-character hexadecimal string, and sets the branch to ref for every other ref.
C6_CheckoutRecordsBranch ==
    [][\A i \in DOMAIN calls :
          calls[i].verb = "checkout" /\ Settles(i, "verbOk")
              => handle'.branch = IF IsFullSha(calls[i].arg) THEN handle.branch
                                                               ELSE calls[i].arg]_vars

\* C7: no line the clone operation logs contains the token, whichever
\* credential-embedding form the clone URL has.
C7_CloneLogHasNoToken == pc # "returned" => \A line \in logged : ~HasToken(line)

\* C8: no line a verb of the handle logs contains the token, also when a push
\* fails after the remote was set to a credentialed clone URL.
C8_VerbLogHasNoToken == pc = "returned" => \A line \in logged : ~HasToken(line)

\* C9: the descriptor's release callback has been invoked exactly as often as the
\* caller released the returned handle: never by the clone operation or by a
\* verb, and once per release, also through a path-derived handle.
C9_ReleaseOnlyByCaller ==
    /\ releaseCalls = callerReleases
    /\ pc # "returned" => releaseCalls = 0

C9_Witness ==
    /\ handle.exists
    /\ handle.release = "parent"
    /\ handle.newRepo
    /\ calls = <<>>
    /\ releaseCalls = 1

\* C10, as stated: at most one Git command is in flight against the working
\* directory, also when the caller invokes a verb without awaiting the previous one.
C10_OneCommandInFlight == InFlight =< 1

\* C10, amended: within the clone operation and within each verb invocation at
\* most one command is in flight, the next one being issued only after the
\* previous one completed; verbs invoked without awaiting run their commands at
\* the same time.
C10_OneCommandPerInvocation ==
    /\ OperationInFlight \in {0, 1}
    /\ \A i \in DOMAIN calls : Len(calls[i].running) =< 1
    /\ pc \in {"resolve", "invalidating", "cloneDone", "failed", "returned"}
          <=> OperationInFlight = 0

C10_Witness ==
    /\ Len(calls) = 2
    /\ calls[1].verb = "commit" /\ calls[1].stage = 2
    /\ calls[2].verb = "checkout"
    /\ InFlight = 2

\* the hyphenated form of an option key: underscores, and with camel the
\* capitals of a camel-case key too, give hyphens
RECURSIVE KeyForm(_, _)
KeyForm(k, camel) ==
    IF k = Empty THEN Empty
    ELSE (IF Head(k) = "_" THEN <<"-">>
          ELSE IF camel /\ Head(k) = "U" THEN <<"-", "u">>
          ELSE <<Head(k)>>) \o KeyForm(Tail(k), camel)

\* the flags of the options: `--flag`, `--no-flag`, `--flag=value`
RECURSIVE FlagsAs(_, _)
FlagsAs(options, camel) ==
    IF options = <<>> THEN Empty
    ELSE LET o == Head(options)
             flag == IF o.type = "boolean"
                     THEN <<IF o.v = <<"true">> THEN " --" ELSE " --no-">> \o KeyForm(o.key, camel)
                     ELSE IF o.type = "string"
                     THEN <<" --">> \o KeyForm(o.key, camel) \o <<"=">> \o o.v
                     ELSE Empty
         IN  flag \o FlagsAs(Tail(options), camel)

BooleansAndStrings(options) ==
    \A k \in DOMAIN options : options[k].type \in {"boolean", "string"}

StartsWith(s, prefix) == Len(s) >= Len(prefix) /\ SubSeq(s, 1, Len(prefix)) = prefix

ForceNoSetUpstream == <<"git push", " --", "force", " --no-", "set", "-", "u", "pstream">>

\* C11, as stated: push renders a true boolean as `--flag`, a false one as
\* `--no-flag` and a string as `--flag=value`, the key in hyphenated form, so
\* that { force: true, setUpstream: false } gives `--force --no-set-upstream`.
C11_FlagsHyphenated ==
    \A i \in DOMAIN calls :
        calls[i].verb = "push" /\ BooleansAndStrings(calls[i].arg)
            => StartsWith(calls[i].running[1], <<"git push">> \o FlagsAs(calls[i].arg, TRUE))

\* C11, amended: the key is rendered with each underscore replaced by a hyphen
\* and is otherwise unchanged, so that { force: true, set_upstream: false } gives
\* `--force --no-set-upstream` and { force: true, setUpstream: false } gives
\* `--force --no-setUpstream`; a value that is neither boolean nor string gives
\* no flag.
C11_FlagsUnderscoresReplaced ==
    \A i \in DOMAIN calls :
        calls[i].verb = "push"
            => /\ StartsWith(calls[i].running[1], <<"git push">> \o FlagsAs(calls[i].arg, FALSE))
               /\ Len(calls[i].arg) = 2 /\ calls[i].arg[2].key = SetUpstreamSnake
                     => StartsWith(calls[i].running[1], ForceNoSetUpstream)
               /\ Len(calls[i].arg) = 2 /\ calls[i].arg[2].key = SetUpstreamCamel
                     => StartsWith(calls[i].running[1],
                                   <<"git push", " --", "force", " --no-", "set", "U", "pstream">>)

C11_Witness ==
    /\ Len(calls) = 1
    /\ calls[1].verb = "push"
    /\ Len(calls[1].arg) = 2 /\ calls[1].arg[2].key = SetUpstreamSnake
    /\ StartsWith(calls[1].running[1], ForceNoSetUpstream)

EndsWith(s, suffix) ==
    Len(s) >= Len(suffix) /\ SubSeq(s, Len(s) - Len(suffix) + 1, Len(s)) = suffix

\* C12: a push command ends with `<remote> <branch>` when the handle's remote and
\* branch are both non-empty and with `--set-upstream origin <branch>` otherwise;
\* a handle is created without a remote, and its remote becomes non-empty only in
\* a step of setRemote or createAndSetRemote, so that until then every push is
\* one with `--set-upstream origin <branch>`.
C12_PushTarget ==
    /\ [](\A i \in DOMAIN calls :
            calls[i].verb = "push"
                => LET b == calls[i].before
                   IN  /\ b.branch # Empty /\ b.remote # Empty
                            => EndsWith(calls[i].running[1],
                                        <<" ">> \o b.remote \o <<" ">> \o b.branch)
                       /\ b.branch = Empty \/ b.remote = Empty
                            => EndsWith(calls[i].running[1],
                                        <<" --set-upstream origin ">> \o b.branch))
    /\ [][/\ ~handle.exists /\ handle'.exists => handle'.remote = Empty
          /\ handle.exists /\ handle.remote = Empty /\ handle'.remote # Empty
                => \E i \in DOMAIN calls' :
                      /\ calls'[i].verb \in {"setRemote", "createAndSetRemote"}
                      /\ calls'[i].running # <<>>]_vars

C12_Witness ==
    /\ Len(calls) = 1
    /\ calls[1].verb = "push"
    /\ calls[1].before.remote # Empty
    /\ calls[1].before.branch = Empty
    /\ EndsWith(calls[1].running[1], <<" --set-upstream origin ">>)

\* C13: a push that fails rejects with an error whose message embeds the text of
\* the command that was attempted, and a push issues one `git push` command: the
\* invocation ends when that command settles, whatever its outcome.
C13_PushFailureNamesCommand ==
    /\ [](\A i \in DOMAIN calls :
            calls[i].verb = "push"
                => /\ calls[i].stage = 1
                   /\ Len(calls[i].running) = 1
                   /\ StartsWith(calls[i].running[1], <<"git push">>))
    /\ [][\A i \in DOMAIN calls :
            calls[i].verb = "push" /\ calls' # calls
                => /\ calls' = RemoveAt(calls, i)
                   /\ settled'.verb = "push"
                   /\ ev' = "verbFail"
                        => /\ settled'.outcome = "rejected"
                           /\ settled'.value = <<"Unable to push '">> \o calls[i].running[1]
                                                   \o <<"': ", "command failed">>
                           /\ Count(settled'.value, calls[i].running[1][1]) = 1]_vars

C13_Witness ==
    /\ settled.verb = "push"
    /\ settled.outcome = "rejected"
    /\ StartsWith(settled.value, <<"Unable to push '", "git push", " --", "force">>)
    /\ calls = <<>>

\* C14: in a fresh, non-deep clone of an identity with branch B and depth d the
\* commands of an attempt are `git clone --depth d <url> <dir> --branch B` and
\* then `git checkout B --`, and the handle of a clone that succeeded has branch B.
C14_CloneRestrictedToBranch ==
    dirInfo = "empty-directory" /\ ~opts.alwaysDeep /\ id.branch # Empty
        => /\ Len(cmds) >= 1
                => cmds[1] = <<"git clone --depth ", ToString(IF opts.depth # 0 THEN opts.depth ELSE 1),
                               " ">> \o cloneUrl(urlForm, id) \o <<" ", Dir, " ", "--branch ">>
                                 \o id.branch
           /\ Len(cmds) >= 2 => cmds[2] = <<"git checkout ">> \o id.branch \o <<" --">>
           /\ pc = "cloneDone" => handle.branch = id.branch

\* invocation i goes on from its first command to its second in this step
GoesOn(i) == calls[i].stage = 1 /\ Len(calls') = Len(calls) /\ calls'[i].stage = 2

C17_HasBranchResult ==
    settled.verb = "hasBranch"
        => LET r == settled.from
               succeeded == r.settles = "resolved" /\ r.success
               listed == \E k \in DOMAIN r.stdout : r.stdout[k] = "topic"
           IN  /\ settled.arg = <<"topic">>
               /\ settled.outcome = "resolved" /\ settled.value = <<"true">>
                     <=> succeeded /\ listed
               /\ settled.outcome = "resolved" /\ settled.value = <<"false">>
                     <=> succeeded /\ ~listed
               /\ settled.outcome = "rejected" <=> ~succeeded
               /\ settled.outcome = "resolved" => settled.value \in {<<"true">>, <<"false">>}

C17_Witness ==
    /\ settled.verb = "hasBranch"
    /\ settled.outcome = "rejected"
    /\ settled.from.settles = "resolved"
    /\ ~settled.from.success
    /\ settled.from.stdout = <<"  ", "topic", "\n">>

\* C18: raisePullRequest throws at the point of the call, without invoking the
\* identity's raisePullRequest, whenever the branch is empty or the identity is
\* not remote-capable; otherwise it invokes the identity's raisePullRequest once,
\* with the handle's branch as source branch, and settles as that does.
C18_PullRequestPreconditions ==
    /\ [][/\ settled'.verb = "raisePullRequest" /\ settled'.outcome = "thrown"
                => /\ calls' = calls
                   /\ handle.branch = Empty \/ handle.id.kind # "remote"
          /\ Len(calls') > Len(calls) /\ calls'[Len(calls')].verb = "raisePullRequest"
                => /\ handle.branch # Empty /\ handle.id.kind = "remote"
                   /\ calls' = Append(calls, calls'[Len(calls')])
                   /\ calls'[Len(calls')].arg = handle.branch
                   /\ calls'[Len(calls')].running = <<>>
          /\ \A i \in DOMAIN calls :
                calls[i].verb = "raisePullRequest" /\ calls' # calls
                    => /\ calls' = RemoveAt(calls, i)
                       /\ settled'.verb = "raisePullRequest"
                       /\ settled'.outcome \in {"resolved", "rejected"}]_vars
    /\ [](settled.verb = "raisePullRequest"
            => \/ settled.outcome = "thrown" /\ ev = "verbThrow"
               \/ settled.outcome = "resolved" /\ settled.arg = handle.branch
               \/ settled.outcome = "rejected" /\ settled.arg = handle.branch)

C18_Witness ==
    /\ settled.verb = "raisePullRequest"
    /\ settled.outcome = "thrown"
    /\ handle.branch # Empty
    /\ handle.id.kind = "local"

\* the repository a handle's identity names: owner and name, path, commit hash
Repository(h) == <<h.id.kind, h.id.repo, h.id.path, h.id.sha>>

\* C19: no step of a verb changes the repository identity of the handle, and the
\* branch changes only in a step in which a checkout or a createBranch succeeded.
C19_IdentityImmutable ==
    [][handle.exists /\ handle'.exists
          => /\ Repository(handle') = Repository(handle)
             /\ handle'.branch # handle.branch
                   => \E i \in DOMAIN calls :
                         /\ calls[i].verb \in {"checkout", "createBranch"}
                         /\ Settles(i, "verbOk")]_vars

\* C20: when createRemote reports failure createAndSetRemote rejects with the
\* error it reported, having issued no command and with the remote as it was;
\* when it reports success the clone URL of the identity given becomes the remote
\* and `git remote add origin <url>` is issued.
C20_CreationErrorVerbatim ==
    /\ [][\A i \in DOMAIN calls :
            calls[i].verb = "createAndSetRemote" /\ calls[i].stage = 0 /\ calls' # calls
                => /\ calls[i].running = <<>>
                   /\ handle.id = NewRepoId
                   /\ IF ev' = "verbFail"
                      THEN /\ calls' = RemoveAt(calls, i)
                           /\ settled'.outcome = "rejected"
                           /\ settled'.value = <<"repository creation failed">>
                           /\ handle'.remote = handle.remote
                      ELSE /\ ev' = "created"
                           /\ handle'.remote = cloneUrl(urlForm, NewRepoId)
                           /\ calls'[i].running
                                 = <<<<"git remote add origin ">> \o cloneUrl(urlForm, NewRepoId)>>]_vars
    /\ [](\A i \in DOMAIN calls :
            calls[i].verb = "createAndSetRemote" /\ calls[i].stage = 1
                => /\ handle.remote = cloneUrl(urlForm, NewRepoId)
                   /\ Len(calls[i].running) = 1)

C20_Witness ==
    /\ settled.verb = "createAndSetRemote"
    /\ settled.outcome = "rejected"
    /\ settled.value = CreationError
    /\ handle.remote = Empty
    /\ handle.id = NewRepoId

\* C21: isClean reports success exactly when the stdout of `git status
\* --porcelain` is the empty string: not for white space, not for an undefined
\* stdout; and no step of isClean changes a field of the handle.
C21_CleanIffEmptyStdout ==
    /\ [](settled.verb = "isClean" /\ settled.outcome = "resolved"
            => /\ settled.value \in {<<"true">>, <<"false">>}
               /\ settled.value = <<"true">>
                     <=> settled.from.stdout # <<"(undefined)">> /\ Len(settled.from.stdout) = 0)
    /\ [](settled.verb = "isClean" /\ settled.outcome = "rejected"
            => settled.from.settles = "rejected")
    /\ [][(\E i \in DOMAIN calls : calls[i].verb = "isClean")
             \/ (\E i \in DOMAIN calls' : calls'[i].verb = "isClean")
                => handle' = handle]_vars

C21_Witness ==
    /\ settled.verb = "isClean"
    /\ settled.outcome = "resolved"
    /\ settled.value = <<"false">>
    /\ settled.from.stdout = <<" ">>
    /\ settled.from.success

\* the operation has ended: READY (a handle, which the caller then takes) or FAILED
Ended == pc \in {"cloneDone", "returned", "failed"}

\* C26: every clone operation ends, with a handle or with an error, and on the
\* way calls directoryFor at most twice and issues at most Retries + 1 `git clone`
\* commands for each empty directory it is given.
C26_CloneEnds ==
    /\ <>Ended
    /\ [](Len(descs) =< 2 /\ attempt =< Retries + 1 /\ cloneCmds =< Retries + 1)
    /\ [][pc = "failed" => pc' = "failed"]_vars

C26_Witness == pc = "failed" /\ secondTry /\ dirInfo = "empty-directory" /\ attempt = Retries + 1

IsPrefix(s, t) == Len(s) =< Len(t) /\ s = SubSeq(t, 1, Len(s))

\* the ref the operation checks out
TargetRef == IF id.branch # Empty THEN id.branch ELSE id.sha

\* the commands of a fresh-clone attempt that needs the promotion
PromotedAttempt ==
    <<cmds[1], <<"git checkout ">> \o TargetRef \o <<" --">>, <<"git fetch --unshallow">>,
      <<"git checkout ">> \o TargetRef \o <<" --">>>>

\* C22: the commands of a fresh-clone attempt are `git clone`, `git checkout`,
\* and after a failed checkout one `git fetch --unshallow` and one more `git
\* checkout`; when the fetch or the second checkout fails the attempt has failed:
\* the next attempt starts with `git clone` while retries are left, and the
\* operation fails when none is.
C22_PromotionOncePerAttempt ==
    /\ [](dirInfo = "empty-directory" /\ cmds # <<>>
            => /\ IsPrefix(cmds, PromotedAttempt)
               /\ StartsWith(cmds[1], <<"git clone ">>)
                     \/ StartsWith(cmds[1], <<"git clone --depth ">>)
               /\ Count(cmds, <<"git fetch --unshallow">>) =< 1)
    /\ [][ev' = "cmdFail" /\ pc \in {"unshallow", "checkout2"}
            => /\ attempt =< Retries
                    => /\ attempt' = attempt + 1
                       /\ cmds' = <<cmds[1]>>
                       /\ outcomes' = <<>>
                       /\ pc' = "clone"
               /\ attempt > Retries
                    => /\ pc' = "failed"
                       /\ attempt' = attempt]_vars

C22_Witness ==
    /\ pc = "failed"
    /\ attempt = Retries + 1
    /\ outcomes = <<TRUE, FALSE, TRUE, FALSE>>
    /\ cmds[3] = <<"git fetch --unshallow">>
    /\ StartsWith(cmds[1], <<"git clone --depth ", "2">>)

\* C23: after a failed reuse the second try is a fresh clone: it issues `git
\* clone` and runs no reuse step, whatever the second descriptor is.
C23_SecondTryClonesAfresh ==
    secondTry /\ Len(descs) = 2
        => /\ dirInfo = "empty-directory"
           /\ cloneCmds >= 1
           /\ pc \notin {"resetOrigin", "pwd", "fetch", "checkout", "resetHard", "pwdClean",
                          "clean", "checkoutDot"}

\* the commands of the reuse path, in the order of the code
ReuseSequence ==
    << <<"git remote set origin ">> \o cloneUrl(urlForm, id),
       <<"pwd">>,
       <<"git fetch origin ">> \o TargetRef,
       <<"git checkout ">> \o TargetRef \o <<" --">>,
       <<"git reset --hard origin/">> \o TargetRef,
       <<"pwd">>,
       <<"git clean -dfx">>,
       <<"git checkout -- .">> >>

C25_LastAttemptErrorSurfaces ==
    pc = "failed" /\ dirInfo = "empty-directory"
        => /\ error # NoError
           /\ error.at = <<IF secondTry THEN 2 ELSE 1, Retries + 1, Len(cmds)>>
           /\ error.cmd = cmds[Len(cmds)]
           /\ Len(outcomes) = Len(cmds)
           /\ ~outcomes[Len(outcomes)]

C25_Witness ==
    /\ pc = "failed"
    /\ dirInfo = "empty-directory"
    /\ ~secondTry
    /\ error.cmd = <<"git fetch --unshallow">>
    /\ error.at = <<1, Retries + 1, 3>>

\* every double quote of s has a backslash right before it
QuotesEscaped(s) == \A k \in DOMAIN s : s[k] = "\"" => k > 1 /\ s[k - 1] = "\\"

\* what a `git commit` command has between its opening and its closing quote
Quoted(cmd) == SubSeq(cmd, 2, Len(cmd) - 1)

C28_ProvenanceRecordsPath ==
    /\ [](pc = "cloneDone"
            => /\ EndsWith(handle.provenance, <<"\nfreshly cloned">>)
                     <=> /\ dirInfo = "empty-directory"
                         /\ cloneCmds >= 1
                         /\ cmds[1] = cloneCommand
                         /\ outcomes[1]
               /\ EndsWith(handle.provenance, <<"\nRe-using existing clone">>)
                     <=> /\ dirInfo = "existing-directory"
                         /\ cmds = ReuseSequence
               /\ EndsWith(handle.provenance, <<"\nfreshly cloned">>)
                     # EndsWith(handle.provenance, <<"\nRe-using existing clone">>))
    /\ [][pc = "cloneDone" /\ pc' = "returned"
            => /\ IsPrefix(handle.provenance, handle'.provenance)
               /\ id.path = Empty => handle'.provenance = handle.provenance]_vars

C28_Witness ==
    /\ pc = "cloneDone"
    /\ secondTry
    /\ dirInfo = "empty-directory"
    /\ attempt = 2
    /\ handle.provenance = DescriptorProvenance \o <<"\nfreshly cloned">>

\* C29: when the clone operation has ended, with a handle or with an error, each
\* descriptor directoryFor gave it is owned by the handle or has been
\* invalidated.
C29_NoDescriptorLeftBehind ==
    pc \in {"cloneDone", "failed"}
        => \A k \in DOMAIN descs : descs[k] \in {"owned", "invalidated"}

\* C30: a `git clone` command is issued into a directory that holds no clone,
\* on the first attempt and on every retry.
C30_ClonesIntoEmptyDirectory == [][cloneCmds' = cloneCmds + 1 => ~populated']_vars

\* C31: a descriptor is invalidated only in clone()'s catch of a failed reuse,
\* so never while the operation is on an empty directory; and when a reuse has
\* succeeded its descriptor is owned by the handle, the release callback has not
\* been invoked, and the operation has issued no `git clone` and no `git fetch
\* --unshallow`.
C31_PathsLeaveTheRestAlone ==
    /\ [](dirInfo = "empty-directory" /\ descs # <<>>
            => descs[Len(descs)] # "invalidated")
    /\ [][descs' # descs /\ Count(descs', "invalidated") > Count(descs, "invalidated")
            => /\ dirInfo = "existing-directory"
               /\ pc = "invalidating"
               /\ ev' = "invalidate"]_vars
    /\ [](pc = "cloneDone" /\ dirInfo = "existing-directory"
            => /\ descs[Len(descs)] = "owned"
               /\ ~secondTry => descs = <<"owned">>
               /\ releaseCalls = 0
               /\ cloneCmds = 0
               /\ \A k \in DOMAIN cmds :
                     /\ cmds[k] # unshallowCommand
                     /\ cmds[k][1] \notin {"git clone --depth ", "git clone "})

C31_Witness ==
    /\ pc = "cloneDone"
    /\ dirInfo = "existing-directory"
    /\ ~secondTry
    /\ descs = <<"owned">>
    /\ cmds = ReuseSequence

\* an options object with a value that is neither a boolean nor a string
HasUnknownType(options) ==
    \E k \in DOMAIN options : options[k].type \notin {"boolean", "string"}

\* C32: a push whose options hold a value that is neither a boolean nor a string
\* has no `git push` command in flight, and is not resolved.
C32_UnknownOptionTypeRejected ==
    /\ \A i \in DOMAIN calls :
          calls[i].verb = "push" /\ HasUnknownType(calls[i].arg) => calls[i].running = <<>>
    /\ settled.verb = "push" /\ HasUnknownType(settled.arg) => settled.outcome = "rejected"

\* a route whose guard this.authenticate made
Guarded(k) == server.routes[k].via = "authenticate"

\* C33: every strategy name a guard made by authenticate(...) hands to
\* passport.authenticate has been registered by setupAuthentication.
C33_GuardsNameRegisteredStrategies ==
    server.pc \in {"routes", "listening"}
        => \A k \in DOMAIN server.routes :
              Guarded(k) /\ server.guards[k].kind = "passport"
                  => Names(server.guards[k].strategies) \subseteq server.registered

\* C34: a route guarded by authenticate(...) has the pass-through handler only
\* when no auth is configured or none of github, basic and bearer is enabled.
C34_PassThroughOnlyWithoutAuth ==
    server.pc \in {"routes", "listening"}
        => \A k \in DOMAIN server.routes :
              Guarded(k) /\ server.guards[k].kind = "next"
                  => \A strategy \in {"github", "basic", "bearer"} :
                        ~Enabled(server.auth, strategy)

====
